---- MODULE Spec2Model ----
(***************************************************************************)
(* wl-actions: a transparent Wayland proxy that counts input actions.      *)
(* The model covers src/src/actions.rs: the four atomic counters, the      *)
(* shared pressed-key / pressed-button sets, the shared scroll debounce    *)
(* timestamp, the counting handlers, and the lifecycle of main(), the      *)
(* Ctrl-C handler thread and the live display thread.                      *)
(* Time is in milliseconds and advances by the steps in ClockSteps.        *)
(* A handler is one atomic step: handlers run one at a time on the         *)
(* dispatching thread and each makes at most one write that another        *)
(* thread can see.  The [DEBUG] lines written to stderr are left out, and  *)
(* the u64 counters stay far from wrapping within the bounds.              *)
(***************************************************************************)
EXTENDS Integers, Sequences, FiniteSets, TLC

\* ---- bounds of the model ------------------------------------------------
MaxEvents == 4        \* events dispatched in a run of key and button events
MaxScrollEvents == 3  \* events dispatched in a run of scroll events
MaxHandlers == 2      \* handler objects per device class in such runs
MaxTicks == 5         \* clock steps in a run of scroll events
MaxMixedEvents == 2   \* events dispatched in a run of all classes, dispatcher alone
MaxLifeEvents == 1    \* events dispatched in a whole-process run
MaxLifeHandlers == 1  \* handler objects per device class in a run of all classes
MaxLifeTicks == 1     \* clock steps in a run of all classes

\* ---- program constants -------------------------------------------------
DebounceMs == 100     \* Duration::from_millis(100) in the scroll handlers
RefreshMs == 100      \* Duration::from_millis(100) slept by the display thread
ClockSteps == {50}       \* the clock advances by one of these, in ms
LifeClockSteps == {100}  \* the same, in a run of all device classes

\* ---- input alphabets ---------------------------------------------------
KeyStates == {"PRESSED", "RELEASED", "REPEATED"}
ButtonStates == {"PRESSED", "RELEASED", "OTHER"}
ScrollAxes == {"VERTICAL_SCROLL", "HORIZONTAL_SCROLL"}
Axes == ScrollAxes \cup {"OTHER_AXIS"}
Keys == {30, 42}
Buttons == {272, 273}
TouchIds == {0}
Discretes == {-3, 3}
Value120s == {24, 96}
AxisValues == {15}
NoEvent == [kind |-> "none"]

Threads == {"main", "ctrlc", "display"}

VARIABLES
    key_presses, button_clicks, scroll_steps, touch_taps,  \* ActionCounters
    pressed_keys, pressed_buttons,                         \* Mutex<HashSet<u32>>
    last_scroll_time,                                      \* Mutex<Instant>
    now,                                                   \* the monotonic clock
    running,                                               \* AtomicBool
    start_time,
    quiet,
    registry_handler, seat_handler,                        \* handlers installed
    POINTER_COUNTER, keyboards, touches,                   \* handler objects created
    pc,                                                    \* position of each thread
    snap,                                                  \* locals of print_summary, per thread
    summaries,                                             \* summaries written to stderr
    status_lines,                                          \* live status lines written
    renders_after_clear,                                   \* those written with running false
    last_status,                                           \* the last live status line
    wake_at,                                               \* when the display thread's sleep ends
    exit_code,                                             \* <<>> while the process lives, then <<code>>
    result,                                                \* what actions::main returned
    received, forwarded, last_in, last_out,                \* events in / out of the proxy
    held_at_send,                                          \* mutexes locked at the last slf.send_*
    delivered,                                             \* per kind: events delivered so far
    ticks,                                                 \* clock steps taken
    \* observers of the event stream, written by no handler code
    key_down, button_down,       \* per id: was the last PRESSED/RELEASED event a PRESSED
    key_runs, button_runs,       \* per id: absent->held transitions in the event stream
    key_via, button_via,         \* per id: handler objects that delivered PRESSED in this hold
    pressed_delivered,           \* PRESSED events delivered (keys and buttons)
    kinds_seen,                  \* kinds of the events delivered so far
    last_accept,                 \* instant of the last counted scroll event, or of start-up
    last_axis_accept,            \* instant of the last counted wl_pointer.axis event, -1 if none
    remainder,                   \* per axis: value120 units not yet making up a step of 120
    alone,                       \* per scroll kind: the steps and debounce instant its events
                                 \* alone would give, and the steps its events were counted for
    at_clear                     \* the counters when running was first cleared

counterVars == <<key_presses, button_clicks, scroll_steps, touch_taps>>
pressVars == <<pressed_keys, pressed_buttons>>
objVars == <<registry_handler, seat_handler, POINTER_COUNTER, keyboards, touches>>
lifeVars == <<running, start_time, quiet, pc, snap, summaries, status_lines, renders_after_clear,
              last_status, wake_at, exit_code, result, at_clear>>
ioVars == <<received, forwarded, last_in, last_out, held_at_send, delivered>>
histVars == <<key_down, button_down, key_runs, button_runs, key_via, button_via,
              pressed_delivered, kinds_seen, last_accept, last_axis_accept, remainder,
              alone>>
vars == <<counterVars, pressVars, last_scroll_time, now, ticks, objVars, lifeVars,
          ioVars, histVars>>


\* ---- pure pieces of the handlers ---------------------------------------

\* HashSet::insert: the set afterwards, and whether the value was new.
Insert(set, k) == set \cup {k}
InsertIsNew(set, k) == k \notin set
\* HashSet::remove: removing an absent value leaves the set as it is.
Remove(set, k) == set \ {k}

\* Mutants of PressedAfter: RELEASED removes nothing; every state but RELEASED
\* inserts.
PressedAfterNoRemove(pressed, id, state) ==
    IF state = "PRESSED" THEN Insert(pressed, id) ELSE pressed

PressedAfterAnyInserts(pressed, id, state) ==
    IF state = "RELEASED" THEN Remove(pressed, id) ELSE Insert(pressed, id)

\* handle_key / handle_button: the pressed set after the match on `state`.
PressedAfter(pressed, id, state) ==
    CASE state = "PRESSED" -> Insert(pressed, id)
      [] state = "RELEASED" -> Remove(pressed, id)
      [] OTHER -> pressed

\* Mutants of KeyIncrement: every PRESSED counts; the state is not matched.
KeyIncrementEveryPress(pressed, key, state) ==
    IF state = "PRESSED" THEN 1 ELSE 0

KeyIncrementAnyState(pressed, key, state) ==
    IF InsertIsNew(pressed, key) THEN 1 ELSE 0

\* handle_key: what the match on `state` adds to key_presses.
KeyIncrement(pressed, key, state) ==
    IF state = "PRESSED" /\ InsertIsNew(pressed, key) THEN 1 ELSE 0

\* Mutant of ButtonIncrement: every PRESSED counts.
ButtonIncrementEveryPress(pressed, button, state) ==
    IF state = "PRESSED" THEN 1 ELSE 0

\* handle_button: what the match on `state` adds to button_clicks.
ButtonIncrement(pressed, button, state) ==
    IF state = "PRESSED" /\ InsertIsNew(pressed, button) THEN 1 ELSE 0

\* Mutant of DebounceElapsed: the window is open at its end.
DebounceElapsedStrict(t, last) == t - last > DebounceMs

\* The debounce test shared by the three scroll handlers.
DebounceElapsed(t, last) == t - last >= DebounceMs

\* handle_axis: only the two scroll axes are looked at.
IsScrollAxis(axis) == axis \in ScrollAxes

\* Mutant of AxisIncrement: no debounce on wl_pointer.axis.
AxisIncrementAlways(axis, value, t, last) ==
    IF IsScrollAxis(axis) THEN 1 ELSE 0

\* handle_axis: what the event adds to scroll_steps.
AxisIncrement(axis, value, t, last) ==
    IF IsScrollAxis(axis) /\ DebounceElapsed(t, last) THEN 1 ELSE 0

\* Mutant of DiscreteIncrement: the magnitude of the event is added.
DiscreteIncrementMagnitude(axis, discrete, t, last) ==
    IF DebounceElapsed(t, last)
    THEN (IF discrete < 0 THEN -discrete ELSE discrete) ELSE 0

\* handle_axis_discrete: what the event adds to scroll_steps.
DiscreteIncrement(axis, discrete, t, last) ==
    IF DebounceElapsed(t, last) THEN 1 ELSE 0

\* Mutant of Value120Increment: no debounce.
Value120IncrementAlways(axis, value120, t, last) == 1

\* handle_axis_value120: what the event adds to scroll_steps.
Value120Increment(axis, value120, t, last) ==
    IF DebounceElapsed(t, last) THEN 1 ELSE 0

\* Mutant of LastTimeAfter: `*last_time = now` is left out.
LastTimeAfterStale(inc, t, last) == last

\* The three scroll handlers: *last_time = now when the event was counted.
LastTimeAfter(inc, t, last) == IF inc > 0 THEN t ELSE last

\* ActionCounters::total
Total(keys, clicks, scrolls, touch) == keys + clicks + touch

\* print_summary: the total it prints.
SummaryTotal(keys, clicks, scrolls, touch) == keys + clicks + scrolls + touch


\* ---- the events as they are sent on downstream ----------------------------

\* Mutant of SendKey: serial and time, both u32, change places.
SendKeySwapped(obj, serial, time, key, state) ==
    [kind |-> "key", obj |-> obj, serial |-> time, time |-> serial,
     id |-> key, state |-> state]

SendKey(obj, serial, time, key, state) ==
    [kind |-> "key", obj |-> obj, serial |-> serial, time |-> time,
     id |-> key, state |-> state]

SendButton(obj, serial, time, button, state) ==
    [kind |-> "button", obj |-> obj, serial |-> serial, time |-> time,
     id |-> button, state |-> state]

SendAxis(obj, time, axis, value) ==
    [kind |-> "axis", obj |-> obj, time |-> time, axis |-> axis, value |-> value]

SendAxisDiscrete(obj, axis, discrete) ==
    [kind |-> "axis_discrete", obj |-> obj, axis |-> axis, value |-> discrete]

SendAxisValue120(obj, axis, value120) ==
    [kind |-> "axis_value120", obj |-> obj, axis |-> axis, value |-> value120]

SendDown(obj, serial, time, surface, id, x, y) ==
    [kind |-> "down", obj |-> obj, serial |-> serial, time |-> time,
     surface |-> surface, id |-> id, x |-> x, y |-> y]

\* ---- the events as they arrive from the compositor ----------------------

KeyEvent(obj, serial, time, key, state) ==
    [kind |-> "key", obj |-> obj, serial |-> serial, time |-> time,
     id |-> key, state |-> state]

ButtonEvent(obj, serial, time, button, state) ==
    [kind |-> "button", obj |-> obj, serial |-> serial, time |-> time,
     id |-> button, state |-> state]

AxisEvent(obj, time, axis, value) ==
    [kind |-> "axis", obj |-> obj, time |-> time, axis |-> axis, value |-> value]

AxisDiscreteEvent(obj, axis, discrete) ==
    [kind |-> "axis_discrete", obj |-> obj, axis |-> axis, value |-> discrete]

AxisValue120Event(obj, axis, value120) ==
    [kind |-> "axis_value120", obj |-> obj, axis |-> axis, value |-> value120]

DownEvent(obj, serial, time, surface, id, x, y) ==
    [kind |-> "down", obj |-> obj, serial |-> serial, time |-> time,
     surface |-> surface, id |-> id, x |-> x, y |-> y]

\* ---- observers ------------------------------------------------------------

\* The kinds of event the counting handlers are given.
EventKinds == {"key", "button", "axis", "axis_discrete", "axis_value120", "down"}

\* An event arrives at the proxy.
Arrive(ev) ==
    /\ received' = received + 1
    /\ last_in' = ev
    /\ kinds_seen' = kinds_seen \cup {ev.kind}
    /\ delivered' = [delivered EXCEPT ![ev.kind] = @ + 1]

\* The MutexGuards alive when a handler calls slf.send_*.  `pressed` of
\* handle_key and handle_button is a local of the match arm and `last_time` of
\* handle_axis a local of the `if matches!` block, all dropped before the send;
\* `last_time` of handle_axis_discrete and handle_axis_value120 is a local of
\* the function body and is dropped when the function returns, after the
\* send.  handle_down takes no lock.
GuardsAtSend(kind) ==
    CASE kind \in {"axis_discrete", "axis_value120"} -> {"last_scroll_time"}
      [] kind \in {"key", "button", "axis", "down"} -> {}

\* The proxy sends an event on.
Forward(ev) ==
    /\ forwarded' = forwarded + 1
    /\ last_out' = ev
    /\ held_at_send' = GuardsAtSend(ev.kind)

\* The held state of an id as the event stream alone gives it.
DownAfter(down, id, state) ==
    CASE state = "PRESSED" -> [down EXCEPT ![id] = TRUE]
      [] state = "RELEASED" -> [down EXCEPT ![id] = FALSE]
      [] OTHER -> down

RunsAfter(runs, down, id, state) ==
    IF state = "PRESSED" /\ ~down[id] THEN [runs EXCEPT ![id] = @ + 1] ELSE runs

\* The sum of f over the finite set S.
RECURSIVE SumOver(_, _)
SumOver(f, S) ==
    IF S = {} THEN 0
    ELSE LET x == CHOOSE y \in S : TRUE IN f[x] + SumOver(f, S \ {x})

ViaAfter(via, id, state, obj) ==
    CASE state = "PRESSED" -> [via EXCEPT ![id] = @ \cup {obj}]
      [] state = "RELEASED" -> [via EXCEPT ![id] = {}]
      [] OTHER -> via

\* Integer division truncating toward zero, and the absolute value.
Abs(n) == IF n < 0 THEN -n ELSE n
TruncDiv(a, b) == IF a >= 0 THEN a \div b ELSE -((-a) \div b)

\* The step accumulator of section 4.3 of the design, kept beside the code.
RemainderAfter(rem, axis, v) ==
    [rem EXCEPT ![axis] = (@ + v) - TruncDiv(@ + v, 120) * 120]

\* The kinds of scroll event, one per scroll handler.
ScrollKinds == {"axis", "axis_discrete", "axis_value120"}

ScrollObserved(kind, aloneInc) ==
    /\ last_accept' = IF scroll_steps' > scroll_steps THEN now ELSE last_accept
    /\ alone' = [alone EXCEPT ![kind] =
                    [steps |-> @.steps + aloneInc,
                     last |-> IF aloneInc > 0 THEN now ELSE @.last,
                     counted |-> @.counted + (scroll_steps' - scroll_steps)]]


\* ---- the counting handlers ----------------------------------------------
\* Handlers run on the dispatching thread inside server.run, one at a time.

Dispatching == pc["main"] = "run" /\ exit_code = <<>>

\* CountingKeyboardHandler::handle_key
HandleKey(obj, serial, time, key, state) ==
    /\ Dispatching
    /\ obj \in 0 .. keyboards - 1
    /\ key_presses' = key_presses + KeyIncrement(pressed_keys, key, state)
    /\ pressed_keys' = PressedAfter(pressed_keys, key, state)
    /\ Arrive(KeyEvent(obj, serial, time, key, state))
    /\ Forward(SendKey(obj, serial, time, key, state))
    /\ key_down' = DownAfter(key_down, key, state)
    /\ key_runs' = RunsAfter(key_runs, key_down, key, state)
    /\ key_via' = ViaAfter(key_via, key, state, obj)
    /\ pressed_delivered' = pressed_delivered + (IF state = "PRESSED" THEN 1 ELSE 0)
    /\ UNCHANGED <<button_clicks, scroll_steps, touch_taps, pressed_buttons,
                   last_scroll_time, now, ticks, objVars, lifeVars,
                   button_down, button_runs, button_via, last_accept,
                   last_axis_accept, remainder, alone>>

\* CountingPointerHandler::handle_button
HandleButton(obj, serial, time, button, state) ==
    /\ Dispatching
    /\ obj \in 0 .. POINTER_COUNTER - 1
    /\ button_clicks' = button_clicks + ButtonIncrement(pressed_buttons, button, state)
    /\ pressed_buttons' = PressedAfter(pressed_buttons, button, state)
    /\ Arrive(ButtonEvent(obj, serial, time, button, state))
    /\ Forward(SendButton(obj, serial, time, button, state))
    /\ button_down' = DownAfter(button_down, button, state)
    /\ button_runs' = RunsAfter(button_runs, button_down, button, state)
    /\ button_via' = ViaAfter(button_via, button, state, obj)
    /\ pressed_delivered' = pressed_delivered + (IF state = "PRESSED" THEN 1 ELSE 0)
    /\ UNCHANGED <<key_presses, scroll_steps, touch_taps, pressed_keys,
                   last_scroll_time, now, ticks, objVars, lifeVars,
                   key_down, key_runs, key_via, last_accept,
                   last_axis_accept, remainder, alone>>

\* CountingPointerHandler::handle_axis
HandleAxis(obj, time, axis, value) ==
    /\ Dispatching
    /\ obj \in 0 .. POINTER_COUNTER - 1
    /\ scroll_steps' = scroll_steps + AxisIncrement(axis, value, now, last_scroll_time)
    /\ last_scroll_time' =
           LastTimeAfter(AxisIncrement(axis, value, now, last_scroll_time), now, last_scroll_time)
    /\ Arrive(AxisEvent(obj, time, axis, value))
    /\ Forward(SendAxis(obj, time, axis, value))
    /\ ScrollObserved("axis", AxisIncrement(axis, value, now, alone["axis"].last))
    /\ last_axis_accept' = IF scroll_steps' > scroll_steps THEN now ELSE last_axis_accept
    /\ UNCHANGED <<key_presses, button_clicks, touch_taps, pressVars, now, ticks,
                   objVars, lifeVars, key_down, button_down, key_runs, button_runs,
                   key_via, button_via, pressed_delivered, remainder>>

\* CountingPointerHandler::handle_axis_discrete
HandleAxisDiscrete(obj, axis, discrete) ==
    /\ Dispatching
    /\ obj \in 0 .. POINTER_COUNTER - 1
    /\ scroll_steps' = scroll_steps + DiscreteIncrement(axis, discrete, now, last_scroll_time)
    /\ last_scroll_time' =
           LastTimeAfter(DiscreteIncrement(axis, discrete, now, last_scroll_time), now, last_scroll_time)
    /\ Arrive(AxisDiscreteEvent(obj, axis, discrete))
    /\ Forward(SendAxisDiscrete(obj, axis, discrete))
    /\ ScrollObserved("axis_discrete",
                      DiscreteIncrement(axis, discrete, now, alone["axis_discrete"].last))
    /\ UNCHANGED <<key_presses, button_clicks, touch_taps, pressVars, now, ticks,
                   objVars, lifeVars, key_down, button_down, key_runs, button_runs,
                   key_via, button_via, pressed_delivered, last_axis_accept, remainder>>

\* CountingPointerHandler::handle_axis_value120
HandleAxisValue120(obj, axis, value120) ==
    /\ Dispatching
    /\ obj \in 0 .. POINTER_COUNTER - 1
    /\ scroll_steps' = scroll_steps + Value120Increment(axis, value120, now, last_scroll_time)
    /\ last_scroll_time' =
           LastTimeAfter(Value120Increment(axis, value120, now, last_scroll_time), now, last_scroll_time)
    /\ Arrive(AxisValue120Event(obj, axis, value120))
    /\ Forward(SendAxisValue120(obj, axis, value120))
    /\ ScrollObserved("axis_value120",
                      Value120Increment(axis, value120, now, alone["axis_value120"].last))
    /\ remainder' = RemainderAfter(remainder, axis, value120)
    /\ UNCHANGED <<key_presses, button_clicks, touch_taps, pressVars, now, ticks,
                   objVars, lifeVars, key_down, button_down, key_runs, button_runs,
                   key_via, button_via, pressed_delivered, last_axis_accept>>

\* Mutant of HandleDown: the tap is added to button_clicks.
HandleDownCountsClick(obj, serial, time, surface, id, x, y) ==
    /\ Dispatching
    /\ obj \in 0 .. touches - 1
    /\ button_clicks' = button_clicks + 1
    /\ Arrive(DownEvent(obj, serial, time, surface, id, x, y))
    /\ Forward(SendDown(obj, serial, time, surface, id, x, y))
    /\ UNCHANGED <<key_presses, touch_taps, scroll_steps, pressVars,
                   last_scroll_time, now, ticks, objVars, lifeVars,
                   key_down, button_down, key_runs, button_runs, key_via, button_via,
                   pressed_delivered, last_accept, last_axis_accept, remainder, alone>>

\* CountingTouchHandler::handle_down
HandleDown(obj, serial, time, surface, id, x, y) ==
    /\ Dispatching
    /\ obj \in 0 .. touches - 1
    /\ touch_taps' = touch_taps + 1
    /\ Arrive(DownEvent(obj, serial, time, surface, id, x, y))
    /\ Forward(SendDown(obj, serial, time, surface, id, x, y))
    /\ UNCHANGED <<key_presses, button_clicks, scroll_steps, pressVars,
                   last_scroll_time, now, ticks, objVars, lifeVars,
                   key_down, button_down, key_runs, button_runs, key_via, button_via,
                   pressed_delivered, last_accept, last_axis_accept, remainder, alone>>

\* ---- the handler objects ----------------------------------------------------

\* WlDisplayHandlerImpl::handle_get_registry
HandleGetRegistry ==
    /\ Dispatching
    /\ ~registry_handler
    /\ registry_handler' = TRUE
    /\ UNCHANGED <<counterVars, pressVars, last_scroll_time, now, ticks, seat_handler,
                   POINTER_COUNTER, keyboards, touches, lifeVars, ioVars, histVars>>

\* WlRegistryHandlerImpl::handle_bind, of a wl_seat
HandleBind ==
    /\ Dispatching
    /\ registry_handler
    /\ ~seat_handler
    /\ seat_handler' = TRUE
    /\ UNCHANGED <<counterVars, pressVars, last_scroll_time, now, ticks, registry_handler,
                   POINTER_COUNTER, keyboards, touches, lifeVars, ioVars, histVars>>

\* CountingSeatHandler::handle_get_pointer
HandleGetPointer(maxHandlers) ==
    /\ Dispatching
    /\ seat_handler
    /\ POINTER_COUNTER < maxHandlers
    /\ POINTER_COUNTER' = POINTER_COUNTER + 1
    /\ UNCHANGED <<counterVars, pressVars, last_scroll_time, now, ticks, registry_handler,
                   seat_handler, keyboards, touches, lifeVars, ioVars, histVars>>

\* CountingSeatHandler::handle_get_keyboard
HandleGetKeyboard(maxHandlers) ==
    /\ Dispatching
    /\ seat_handler
    /\ keyboards < maxHandlers
    /\ keyboards' = keyboards + 1
    /\ UNCHANGED <<counterVars, pressVars, last_scroll_time, now, ticks, registry_handler,
                   seat_handler, POINTER_COUNTER, touches, lifeVars, ioVars, histVars>>

\* CountingSeatHandler::handle_get_touch
HandleGetTouch(maxHandlers) ==
    /\ Dispatching
    /\ seat_handler
    /\ touches < maxHandlers
    /\ touches' = touches + 1
    /\ UNCHANGED <<counterVars, pressVars, last_scroll_time, now, ticks, registry_handler,
                   seat_handler, POINTER_COUNTER, keyboards, lifeVars, ioVars, histVars>>

\* The clock advances by d ms.  Its origin is the instant main() takes
\* start_time: no instant is read before that.
Tick(maxTicks, d) ==
    /\ exit_code = <<>>
    /\ pc["main"] \notin {"create", "spawn", "setup"}
    /\ ticks < maxTicks
    /\ now' = now + d
    /\ ticks' = ticks + 1
    /\ UNCHANGED <<counterVars, pressVars, last_scroll_time, objVars, lifeVars,
                   ioVars, histVars>>

\* The inputs of one event.  The compositor numbers its events with
\* increasing serials and stamps them with its clock, in ms.
HandlerObjects == 0 .. MaxHandlers - 1
NextSerial == received + 1
EventTime == now

\* One key or button event is dispatched to its handler.
PressEvents(maxEvents) ==
    /\ received < maxEvents
    /\ \/ \E obj \in HandlerObjects, key \in Keys, state \in KeyStates :
             HandleKey(obj, NextSerial, EventTime, key, state)
       \/ \E obj \in HandlerObjects, button \in Buttons, state \in ButtonStates :
             HandleButton(obj, NextSerial, EventTime, button, state)

\* One scroll event is dispatched to its handler.
ScrollEvents(maxEvents) ==
    /\ received < maxEvents
    /\ \/ \E obj \in HandlerObjects, axis \in Axes, value \in AxisValues :
             HandleAxis(obj, EventTime, axis, value)
       \/ \E obj \in HandlerObjects, axis \in ScrollAxes, discrete \in Discretes :
             HandleAxisDiscrete(obj, axis, discrete)
       \/ \E obj \in HandlerObjects, axis \in ScrollAxes, value120 \in Value120s :
             HandleAxisValue120(obj, axis, value120)

\* One touch-down event is dispatched to its handler.
TouchEvents(maxEvents) ==
    /\ received < maxEvents
    /\ \E obj \in HandlerObjects, id \in TouchIds :
          HandleDown(obj, NextSerial, EventTime, "surface", id, 10, 20)

\* ---- main(), the Ctrl-C handler thread and the display thread -----------

Alive == exit_code = <<>>

Counters == [keys |-> key_presses, clicks |-> button_clicks,
             scrolls |-> scroll_steps, touch |-> touch_taps]

NoSnap == [duration |-> 0, keys |-> 0, clicks |-> 0, scrolls |-> 0, touch |-> 0]

Goto(t, label) == pc' = [pc EXCEPT ![t] = label]

dispatchVars == <<counterVars, pressVars, last_scroll_time, objVars, ioVars, histVars>>

\* SimpleProxy::new(..).map_err(ActionsError::CreateServer)?
MainCreateServer ==
    /\ Alive /\ pc["main"] = "create"
    /\ \/ Goto("main", "spawn") /\ UNCHANGED <<result, exit_code>>
       \/ Goto("main", "done") /\ result' = "CreateServer" /\ exit_code' = <<1>>
    /\ UNCHANGED <<dispatchVars, now, ticks, running, start_time, quiet, snap,
                   summaries, status_lines, renders_after_clear, last_status, wake_at, at_clear>>

\* Command::new(..).spawn().map_err(ActionsError::SpawnChild)?
MainSpawnChild ==
    /\ Alive /\ pc["main"] = "spawn"
    /\ \/ Goto("main", "setup") /\ UNCHANGED <<result, exit_code>>
       \/ Goto("main", "done") /\ result' = "SpawnChild" /\ exit_code' = <<1>>
    /\ UNCHANGED <<dispatchVars, now, ticks, running, start_time, quiet, snap,
                   summaries, status_lines, renders_after_clear, last_status, wake_at, at_clear>>

\* The counters, the running flag, start_time and ctrlc::set_handler.
MainSetup ==
    /\ Alive /\ pc["main"] = "setup"
    /\ key_presses' = 0 /\ button_clicks' = 0 /\ scroll_steps' = 0 /\ touch_taps' = 0
    /\ running' = TRUE
    /\ start_time' = now
    /\ pc' = [pc EXCEPT !["main"] = "spawn_display", !["ctrlc"] = "wait"]
    /\ UNCHANGED <<pressVars, last_scroll_time, objVars, ioVars, histVars, now, ticks,
                   quiet, snap, summaries, status_lines, renders_after_clear, last_status, wake_at,
                   exit_code, result, at_clear>>

\* Mutant of MainEnterRun: the running flag is set once more before
\* server.run, after the Ctrl+C handler was installed.
MainEnterRunSetsRunning ==
    /\ Alive /\ pc["main"] = "spawn_display"
    /\ pc' = [pc EXCEPT !["main"] = "run",
                         !["display"] = IF quiet THEN "none" ELSE "check"]
    /\ running' = TRUE
    /\ pressed_keys' = {} /\ pressed_buttons' = {}
    /\ last_scroll_time' = now
    /\ last_accept' = now
    /\ alone' = [k \in ScrollKinds |-> [alone[k] EXCEPT !.last = now]]
    /\ UNCHANGED <<counterVars, objVars, ioVars, key_down, button_down, key_runs,
                   button_runs, key_via, button_via, pressed_delivered, kinds_seen,
                   last_axis_accept, remainder, now, ticks, start_time,
                   quiet, snap, summaries, status_lines, renders_after_clear, last_status, wake_at,
                   exit_code, result, at_clear>>

\* thread::spawn of the display thread unless quiet, then the shared handler
\* state, then server.run starts dispatching.
MainEnterRun ==
    /\ Alive /\ pc["main"] = "spawn_display"
    /\ pc' = [pc EXCEPT !["main"] = "run",
                         !["display"] = IF quiet THEN "none" ELSE "check"]
    /\ pressed_keys' = {} /\ pressed_buttons' = {}
    /\ last_scroll_time' = now
    /\ last_accept' = now
    /\ alone' = [k \in ScrollKinds |-> [alone[k] EXCEPT !.last = now]]
    /\ UNCHANGED <<counterVars, objVars, ioVars, key_down, button_down, key_runs,
                   button_runs, key_via, button_via, pressed_delivered, kinds_seen,
                   last_axis_accept, remainder, now, ticks, running, start_time,
                   quiet, snap, summaries, status_lines, renders_after_clear, last_status, wake_at,
                   exit_code, result, at_clear>>

\* server.run returns its error: the child exited or the connection failed.
ServerRunReturns ==
    /\ Alive /\ pc["main"] = "run"
    /\ Goto("main", "store")
    /\ UNCHANGED <<dispatchVars, now, ticks, running, start_time, quiet, snap,
                   summaries, status_lines, renders_after_clear, last_status, wake_at, exit_code, result,
                   at_clear>>

\* SIGINT is delivered and the ctrlc thread calls the handler closure.
Interrupt ==
    /\ Alive /\ pc["ctrlc"] = "wait"
    /\ Goto("ctrlc", "store")
    /\ UNCHANGED <<dispatchVars, now, ticks, running, start_time, quiet, snap,
                   summaries, status_lines, renders_after_clear, last_status, wake_at, exit_code, result,
                   at_clear>>

\* running.store(false, Ordering::Relaxed), in main and in the closure.
StoreRunning(t) ==
    /\ Alive /\ pc[t] = "store"
    /\ running' = FALSE
    /\ at_clear' = IF running THEN <<Counters>> ELSE at_clear
    /\ Goto(t, "load_keys")
    /\ UNCHANGED <<dispatchVars, now, ticks, start_time, quiet, snap, summaries,
                   status_lines, renders_after_clear, last_status, wake_at, exit_code, result>>

\* In the closure: eprintln!() that ends the live status line, then
\* print_summary's start_time.elapsed() and the first of its four relaxed
\* loads.  The dispatching thread may run between any two of the loads.
LoadKeys ==
    /\ Alive /\ pc["ctrlc"] = "load_keys"
    /\ snap' = [snap EXCEPT !["ctrlc"] = [@ EXCEPT !.duration = now - start_time,
                                                    !.keys = key_presses]]
    /\ Goto("ctrlc", "load_clicks")
    /\ UNCHANGED <<dispatchVars, now, ticks, running, start_time, quiet, summaries,
                   status_lines, renders_after_clear, last_status, wake_at, exit_code, result, at_clear>>

LoadClicks ==
    /\ Alive /\ pc["ctrlc"] = "load_clicks"
    /\ snap' = [snap EXCEPT !["ctrlc"].clicks = button_clicks]
    /\ Goto("ctrlc", "load_scrolls")
    /\ UNCHANGED <<dispatchVars, now, ticks, running, start_time, quiet, summaries,
                   status_lines, renders_after_clear, last_status, wake_at, exit_code, result, at_clear>>

LoadScrolls ==
    /\ Alive /\ pc["ctrlc"] = "load_scrolls"
    /\ snap' = [snap EXCEPT !["ctrlc"].scrolls = scroll_steps]
    /\ Goto("ctrlc", "load_touch")
    /\ UNCHANGED <<dispatchVars, now, ticks, running, start_time, quiet, summaries,
                   status_lines, renders_after_clear, last_status, wake_at, exit_code, result, at_clear>>

LoadTouch ==
    /\ Alive /\ pc["ctrlc"] = "load_touch"
    /\ snap' = [snap EXCEPT !["ctrlc"].touch = touch_taps]
    /\ Goto("ctrlc", "print")
    /\ UNCHANGED <<dispatchVars, now, ticks, running, start_time, quiet, summaries,
                   status_lines, renders_after_clear, last_status, wake_at, exit_code, result, at_clear>>

\* In main: eprintln!() unless quiet, then print_summary's elapsed() and loads.
\* The counters are written by the handlers only, which run on this thread
\* inside server.run, so the four loads see one state.
MainLoad ==
    /\ Alive /\ pc["main"] = "load_keys"
    /\ snap' = [snap EXCEPT !["main"] =
                   [duration |-> now - start_time, keys |-> key_presses,
                    clicks |-> button_clicks, scrolls |-> scroll_steps,
                    touch |-> touch_taps]]
    /\ Goto("main", "print")
    /\ UNCHANGED <<dispatchVars, now, ticks, running, start_time, quiet, summaries,
                   status_lines, renders_after_clear, last_status, wake_at, exit_code, result, at_clear>>

\* A quotient of naturals rounded to the nearest integer, a tie going to the
\* even neighbour: what {:.1} does with the digits after the first decimal.
RoundDiv(a, b) ==
    LET q == a \div b
        r == a % b
    IN IF 2 * r > b \/ (2 * r = b /\ q % 2 = 1) THEN q + 1 ELSE q

\* Mutant of Apm: the whole seconds of duration.as_secs() divide the total.
ApmWholeSeconds(total, duration) ==
    IF duration \div 1000 > 0 THEN RoundDiv(total * 600, duration \div 1000) ELSE 0

\* print_summary: the actions per minute as printed with {:.1}, in tenths.
\* duration is in ms, so duration.as_secs_f64() is duration / 1000.
Apm(total, duration) ==
    IF duration > 0 THEN RoundDiv(total * 600000, duration) ELSE 0

\* print_summary: the total and the eight lines written to stderr.
SummaryOf(t, s) ==
    [by |-> t, duration |-> s.duration, keys |-> s.keys, clicks |-> s.clicks,
     scrolls |-> s.scrolls, touch |-> s.touch,
     total |-> SummaryTotal(s.keys, s.clicks, s.scrolls, s.touch),
     apm |-> Apm(SummaryTotal(s.keys, s.clicks, s.scrolls, s.touch), s.duration)]

PrintSummary(t) ==
    /\ Alive /\ pc[t] = "print"
    /\ summaries' = Append(summaries, SummaryOf(t, snap[t]))
    /\ Goto(t, "leave")
    /\ UNCHANGED <<dispatchVars, now, ticks, running, start_time, quiet, snap,
                   status_lines, renders_after_clear, last_status, wake_at, exit_code, result, at_clear>>

\* Mutant of MainReturn: the error of server.run is returned as soon as
\* server.run has returned, as a `?` on it would.
MainReturnEarly ==
    /\ Alive /\ pc["main"] \in {"store", "leave"}
    /\ result' = "ServerFailed"
    /\ exit_code' = <<1>>
    /\ Goto("main", "done")
    /\ UNCHANGED <<dispatchVars, now, ticks, running, start_time, quiet, snap,
                   summaries, status_lines, renders_after_clear, last_status, wake_at, at_clear>>

\* Err(ActionsError::ServerFailed(err)): main returns and the process ends.
MainReturn ==
    /\ Alive /\ pc["main"] = "leave"
    /\ result' = "ServerFailed"
    /\ exit_code' = <<1>>
    /\ Goto("main", "done")
    /\ UNCHANGED <<dispatchVars, now, ticks, running, start_time, quiet, snap,
                   summaries, status_lines, renders_after_clear, last_status, wake_at, at_clear>>

\* exit(0) in the closure: the whole process ends.
HandlerExit ==
    /\ Alive /\ pc["ctrlc"] = "leave"
    /\ exit_code' = <<0>>
    /\ Goto("ctrlc", "done")
    /\ UNCHANGED <<dispatchVars, now, ticks, running, start_time, quiet, snap,
                   summaries, status_lines, renders_after_clear, last_status, wake_at, result, at_clear>>

\* Mutant of DisplayCheck: the loop does not test the running flag.
DisplayCheckAlways ==
    /\ Alive /\ pc["display"] = "check"
    /\ now >= wake_at
    /\ Goto("display", "load")
    /\ UNCHANGED <<dispatchVars, now, ticks, running, start_time, quiet, snap,
                   summaries, status_lines, renders_after_clear, last_status, wake_at,
                   exit_code, result, at_clear>>

\* The display thread: while running_clone.load(..)
DisplayCheck ==
    /\ Alive /\ pc["display"] = "check"
    /\ now >= wake_at
    /\ Goto("display", IF running THEN "load" ELSE "done")
    /\ UNCHANGED <<dispatchVars, now, ticks, running, start_time, quiet, snap,
                   summaries, status_lines, renders_after_clear, last_status, wake_at, exit_code, result,
                   at_clear>>

\* The display thread: the loads of the four counters.
DisplayLoad ==
    /\ Alive /\ pc["display"] = "load"
    /\ snap' = [snap EXCEPT !["display"] =
                   [duration |-> 0, keys |-> key_presses, clicks |-> button_clicks,
                    scrolls |-> scroll_steps, touch |-> touch_taps]]
    /\ Goto("display", "render")
    /\ UNCHANGED <<dispatchVars, now, ticks, running, start_time, quiet, summaries,
                   status_lines, renders_after_clear, last_status, wake_at, exit_code, result, at_clear>>

\* The display thread: counters_clone.total(), eprint! of the status line, and
\* the start of thread::sleep(100 ms).
DisplayRender ==
    /\ Alive /\ pc["display"] = "render"
    /\ last_status' = [keys |-> snap["display"].keys, clicks |-> snap["display"].clicks,
                       scrolls |-> snap["display"].scrolls, touch |-> snap["display"].touch,
                       total |-> Total(key_presses, button_clicks, scroll_steps, touch_taps)]
    /\ status_lines' = status_lines + 1
    /\ renders_after_clear' = renders_after_clear + (IF running THEN 0 ELSE 1)
    /\ wake_at' = now + RefreshMs
    /\ Goto("display", "check")
    /\ UNCHANGED <<dispatchVars, now, ticks, running, start_time, quiet, snap,
                   summaries, exit_code, result, at_clear>>


\* ---- the specifications ----------------------------------------------------

\* What no thread has written yet when the counters are read.
InitRest ==
    /\ pressed_keys = {} /\ pressed_buttons = {}
    /\ last_scroll_time = 0
    /\ ticks = 0
    /\ start_time = 0
    /\ registry_handler = FALSE /\ seat_handler = FALSE
    /\ POINTER_COUNTER = 0 /\ keyboards = 0 /\ touches = 0
    /\ snap = [t \in Threads |-> NoSnap]
    /\ summaries = <<>>
    /\ status_lines = 0 /\ renders_after_clear = 0
    /\ last_status = [keys |-> 0, clicks |-> 0, scrolls |-> 0, touch |-> 0, total |-> 0]
    /\ wake_at = 0
    /\ exit_code = <<>>
    /\ result = "none"
    /\ received = 0 /\ forwarded = 0
    /\ last_in = NoEvent /\ last_out = NoEvent
    /\ held_at_send = {}
    /\ delivered = [k \in EventKinds |-> 0]
    /\ key_down = [k \in Keys |-> FALSE]
    /\ button_down = [b \in Buttons |-> FALSE]
    /\ key_runs = [k \in Keys |-> 0]
    /\ button_runs = [b \in Buttons |-> 0]
    /\ key_via = [k \in Keys |-> {}]
    /\ button_via = [b \in Buttons |-> {}]
    /\ pressed_delivered = 0
    /\ kinds_seen = {}
    /\ last_accept = 0
    /\ last_axis_accept = -1
    /\ remainder = [a \in Axes |-> 0]
    /\ alone = [k \in ScrollKinds |-> [steps |-> 0, last |-> 0, counted |-> 0]]

InitShared ==
    /\ InitRest
    /\ key_presses = 0 /\ button_clicks = 0 /\ scroll_steps = 0 /\ touch_taps = 0
    /\ now = 0
    /\ running = TRUE
    /\ at_clear = <<>>

\* The process as main() is entered.
Init ==
    /\ InitShared
    /\ quiet \in BOOLEAN
    /\ pc = [t \in Threads |-> IF t = "main" THEN "create" ELSE "none"]

Next ==
    \/ MainCreateServer
    \/ MainSpawnChild
    \/ MainSetup
    \/ MainEnterRun
    \/ PressEvents(MaxLifeEvents)
    \/ ScrollEvents(MaxLifeEvents)
    \/ TouchEvents(MaxLifeEvents)
    \/ HandleGetRegistry
    \/ HandleBind
    \/ HandleGetPointer(MaxLifeHandlers)
    \/ HandleGetKeyboard(MaxLifeHandlers)
    \/ HandleGetTouch(MaxLifeHandlers)
    \/ \E d \in LifeClockSteps : Tick(MaxLifeTicks, d)
    \/ ServerRunReturns
    \/ Interrupt
    \/ \E t \in {"main", "ctrlc"} :
          \/ StoreRunning(t)
          \/ PrintSummary(t)
    \/ MainLoad
    \/ LoadKeys
    \/ LoadClicks
    \/ LoadScrolls
    \/ LoadTouch
    \/ MainReturn
    \/ HandlerExit
    \/ DisplayCheck
    \/ DisplayLoad
    \/ DisplayRender

Spec == Init /\ [][Next]_vars

\* The dispatcher alone: main() is inside server.run in quiet mode, no signal
\* arrives and server.run does not return.
InitDispatch ==
    /\ InitShared
    /\ quiet = TRUE
    /\ pc = [t \in Threads |-> CASE t = "main" -> "run"
                                  [] t = "ctrlc" -> "wait"
                                  [] OTHER -> "none"]

\* Every handler, with the clock.
NextDispatch ==
    \/ PressEvents(MaxMixedEvents)
    \/ ScrollEvents(MaxMixedEvents)
    \/ TouchEvents(MaxMixedEvents)
    \/ HandleGetRegistry
    \/ HandleBind
    \/ HandleGetPointer(MaxLifeHandlers)
    \/ HandleGetKeyboard(MaxLifeHandlers)
    \/ HandleGetTouch(MaxLifeHandlers)
    \/ \E d \in LifeClockSteps : Tick(MaxLifeTicks, d)

SpecDispatch == InitDispatch /\ [][NextDispatch]_vars

\* Key and button events alone.
NextPress ==
    \/ PressEvents(MaxEvents)
    \/ HandleGetRegistry
    \/ HandleBind
    \/ HandleGetPointer(MaxHandlers)
    \/ HandleGetKeyboard(MaxHandlers)

SpecPress == InitDispatch /\ [][NextPress]_vars

\* Scroll events alone, with the clock.
NextScroll ==
    \/ ScrollEvents(MaxScrollEvents)
    \/ HandleGetRegistry
    \/ HandleBind
    \/ HandleGetPointer(MaxHandlers)
    \/ \E d \in ClockSteps : Tick(MaxTicks, d)

SpecScroll == InitDispatch /\ [][NextScroll]_vars


\* The threads of the process, with touch events as the session's traffic:
\* main() from its entry to its return, the Ctrl+C closure and the display
\* thread.
NextLife ==
    \/ MainCreateServer
    \/ MainSpawnChild
    \/ MainSetup
    \/ MainEnterRun
    \/ TouchEvents(MaxLifeEvents)
    \/ HandleGetRegistry
    \/ HandleBind
    \/ HandleGetTouch(MaxLifeHandlers)
    \/ \E d \in LifeClockSteps : Tick(MaxLifeTicks, d)
    \/ ServerRunReturns
    \/ Interrupt
    \/ \E t \in {"main", "ctrlc"} :
          \/ StoreRunning(t)
          \/ PrintSummary(t)
    \/ MainLoad
    \/ LoadKeys
    \/ LoadClicks
    \/ LoadScrolls
    \/ LoadTouch
    \/ MainReturn
    \/ HandlerExit
    \/ DisplayCheck
    \/ DisplayLoad
    \/ DisplayRender

\* print_summary alone: main() has cleared the running flag after a session
\* of any length with any counts, and goes on to load, print and return.
ApmDurations == {0, 1, 500, 1500, 60000, 90000}
ApmKeys == {0, 1, 20, 60}
ApmClicks == {0, 20}
ApmScrolls == {0, 7, 20}
ApmTouches == {0, 20}

\* The threads of the process with no client traffic.  The display thread is
\* scheduled whenever it can take a step, and time passes while the clock of
\* the model has steps left; main() and the Ctrl+C closure may stall.
NextThreads ==
    \/ MainCreateServer
    \/ MainSpawnChild
    \/ MainSetup
    \/ MainEnterRun
    \/ \E d \in LifeClockSteps : Tick(MaxLifeTicks, d)
    \/ ServerRunReturns
    \/ Interrupt
    \/ \E t \in {"main", "ctrlc"} :
          \/ StoreRunning(t)
          \/ PrintSummary(t)
    \/ MainLoad
    \/ LoadKeys
    \/ LoadClicks
    \/ LoadScrolls
    \/ LoadTouch
    \/ MainReturn
    \/ HandlerExit
    \/ DisplayCheck
    \/ DisplayLoad
    \/ DisplayRender

SpecThreads ==
    /\ Init /\ [][NextThreads]_vars
    /\ WF_vars(DisplayCheck) /\ WF_vars(DisplayLoad) /\ WF_vars(DisplayRender)
    /\ WF_vars(\E d \in LifeClockSteps : Tick(MaxLifeTicks, d))

InitApm ==
    /\ InitRest
    /\ key_presses \in ApmKeys /\ button_clicks \in ApmClicks
    /\ scroll_steps \in ApmScrolls /\ touch_taps \in ApmTouches
    /\ now \in ApmDurations
    /\ running = FALSE
    /\ at_clear = <<Counters>>
    /\ quiet = TRUE
    /\ pc = [t \in Threads |-> CASE t = "main" -> "load_keys"
                                  [] t = "ctrlc" -> "wait"
                                  [] OTHER -> "none"]

NextApm ==
    \/ MainLoad
    \/ PrintSummary("main")
    \/ MainReturn

SpecApm == InitApm /\ [][NextApm]_vars

SpecLife == Init /\ [][NextLife]_vars

\* Every handler, with up to MaxHandlers touch handlers, and the clock.
NextCount ==
    \/ PressEvents(MaxMixedEvents)
    \/ ScrollEvents(MaxMixedEvents)
    \/ TouchEvents(MaxMixedEvents)
    \/ HandleGetRegistry
    \/ HandleBind
    \/ HandleGetPointer(MaxLifeHandlers)
    \/ HandleGetKeyboard(MaxLifeHandlers)
    \/ HandleGetTouch(MaxHandlers)
    \/ \E d \in LifeClockSteps : Tick(MaxLifeTicks, d)

SpecCount == InitDispatch /\ [][NextCount]_vars


\* ---- the claims --------------------------------------------------------------

\* Steps of the dispatcher, told by the event that arrived.
Arrived(kind) == received' = received + 1 /\ last_in'.kind = kind

\* C1: for any sequence of key PRESSED/RELEASED events, through any number of
\* keyboard handlers sharing pressed_keys, key_presses has grown by the number
\* of absent->held transitions of the stream, not by the number of PRESSED
\* events delivered.
C1_KeyPressesAreHeldRuns == key_presses = SumOver(key_runs, Keys)

\* One key was pressed, released and pressed again through both keyboard
\* handlers: three PRESSED events, two counted.
C1_Witness ==
    /\ kinds_seen = {"key"} /\ received = 4
    /\ key_presses = 2 /\ pressed_delivered = 3
    /\ \E k \in Keys : key_runs[k] = 2 /\ key_via[k] = {0, 1}

\* C2: a button press delivered as PRESSED through several pointer handlers
\* adds exactly 1 to button_clicks for that hold, and after a RELEASED the next
\* PRESSED adds exactly 1 again: button_clicks is the number of holds.
C2_ButtonClicksAreHolds == button_clicks = SumOver(button_runs, Buttons)

\* One button was pressed, released and pressed again through both pointer
\* handlers: three PRESSED events, two clicks.
C2_Witness ==
    /\ kinds_seen = {"button"} /\ received = 4
    /\ button_clicks = 2 /\ pressed_delivered = 3
    /\ \E b \in Buttons : button_runs[b] = 2 /\ button_via[b] = {0, 1}

\* C3: no RELEASED event changes a counter, and a RELEASED event for an id that
\* is not in the pressed set leaves the pressed sets as they are.
C3_ReleaseIsNoAction ==
    [][(/\ Arrived("key") \/ Arrived("button")
        /\ last_in'.state = "RELEASED")
       => /\ counterVars' = counterVars
          /\ (last_in'.kind = "key" /\ last_in'.id \notin pressed_keys)
                => pressVars' = pressVars
          /\ (last_in'.kind = "button" /\ last_in'.id \notin pressed_buttons)
                => pressVars' = pressVars]_vars

\* The first event of the run was the release of a button never pressed.
C3_Witness ==
    /\ received = 1 /\ last_in.kind = "button" /\ last_in.state = "RELEASED"
    /\ pressed_buttons = {} /\ button_clicks = 0

\* C4, as claimed: every value120 delivery adds abs(remainder / 120), truncated
\* toward zero, to scroll_steps, the remainder being accumulated per axis.
C4_AsClaimed ==
    [][Arrived("axis_value120")
       => scroll_steps' - scroll_steps =
            Abs(TruncDiv(remainder[last_in'.axis] + last_in'.value, 120))]_vars

\* C4, amended: every value120 delivery adds exactly 1 to scroll_steps when at
\* least 100 ms have passed since the last counted scroll event of any kind (or
\* since start-up), and 0 otherwise, whatever its value.
C4_Value120IsDebounced ==
    [][Arrived("axis_value120")
       => scroll_steps' - scroll_steps =
            (IF now - last_accept >= 100 THEN 1 ELSE 0)]_vars

\* Two deliveries of 24 units on one axis were counted as two steps.
C4_Witness ==
    /\ kinds_seen = {"axis_value120"} /\ received = 2 /\ scroll_steps = 2
    /\ \E a \in ScrollAxes : remainder[a] = 48

\* C5, as claimed: every discrete delivery of d adds abs(d) to scroll_steps.
C5_AsClaimed ==
    [][Arrived("axis_discrete")
       => scroll_steps' - scroll_steps = Abs(last_in'.value)]_vars

\* C5, amended: every discrete delivery adds exactly 1 to scroll_steps when at
\* least 100 ms have passed since the last counted scroll event of any kind (or
\* since start-up), and 0 otherwise, whatever d.
C5_DiscreteIsDebounced ==
    [][Arrived("axis_discrete")
       => scroll_steps' - scroll_steps =
            (IF now - last_accept >= 100 THEN 1 ELSE 0)]_vars

\* Two discrete deliveries, the last of 3 steps, were counted as two steps.
C5_Witness ==
    /\ kinds_seen = {"axis_discrete"} /\ received = 2 /\ scroll_steps = 2
    /\ last_in.value = 3 /\ last_accept = now

\* C6, as claimed: a continuous scroll event is counted as one step exactly
\* when 100 ms have passed since the last counted continuous event, the first
\* continuous event being counted.
C6_AsClaimed ==
    [][(Arrived("axis") /\ IsScrollAxis(last_in'.axis))
       => scroll_steps' - scroll_steps =
            (IF last_axis_accept = -1 \/ now - last_axis_accept >= 100
             THEN 1 ELSE 0)]_vars

\* C6, amended: a continuous scroll event on a scroll axis is counted as one
\* step exactly when 100 ms have passed since the last counted scroll event of
\* any kind or, none having been counted, since start-up.
C6_AxisIsDebounced ==
    [][Arrived("axis")
       => scroll_steps' - scroll_steps =
            (IF IsScrollAxis(last_in'.axis) /\ now - last_accept >= 100
             THEN 1 ELSE 0)]_vars

\* Three continuous events, the last at 250 ms: two were counted, one was not.
C6_Witness ==
    /\ kinds_seen = {"axis"} /\ received = 3 /\ scroll_steps = 2
    /\ now = 250 /\ last_axis_accept = 250

\* C7, as claimed: whatever the interleaving of the Ctrl-C closure with the
\* return of server.run, one summary is printed in a run, never two.
C7_SummaryPrintedOnce ==
    /\ Len(summaries) <= 1
    /\ (exit_code # <<>> /\ result \notin {"CreateServer", "SpawnChild"})
          => Len(summaries) = 1

\* C8, as claimed: a printed summary shows the counters as they were when the
\* running flag was cleared.
C8_SummaryIsCountersAtClear ==
    \A i \in 1 .. Len(summaries) :
        /\ at_clear # <<>>
        /\ [keys |-> summaries[i].keys, clicks |-> summaries[i].clicks,
            scrolls |-> summaries[i].scrolls, touch |-> summaries[i].touch]
             = at_clear[1]

\* C9: every event a counting handler handles is sent on once, with the field
\* values it came with, counted or not.
C9_ForwardedOnceUnchanged == forwarded = received /\ last_out = last_in

\* A PRESSED of a key already held was not counted, and was sent on.
C9_Witness ==
    /\ received = 2 /\ last_in.kind = "key" /\ last_in.state = "PRESSED"
    /\ key_presses = 1 /\ pressed_delivered = 2 /\ forwarded = 2

\* C10, as claimed: the total of a printed summary is ActionCounters::total()
\* of the counts it shows, scroll_steps left out.
C10_SummaryTotalIsTotal ==
    \A i \in 1 .. Len(summaries) :
        summaries[i].total = Total(summaries[i].keys, summaries[i].clicks,
                                   summaries[i].scrolls, summaries[i].touch)

\* C11, as claimed: whichever of the three failures main() returns, the
\* summary was printed before it was returned.
C11_AsClaimed ==
    result \in {"CreateServer", "SpawnChild", "ServerFailed"}
        => Len(summaries) >= 1

\* C11: each of the three failures ends the process with a failure code, and
\* none of the three steps is taken again.  A failure of server.run is returned
\* after main() has printed its summary; a failure to create the server or to
\* spawn the child is returned at once, with no summary printed.
C11_FailuresAreFatal ==
    /\ result \in {"CreateServer", "SpawnChild"}
          => /\ exit_code = <<1>> /\ pc["main"] = "done"
             /\ summaries = <<>>
             /\ pc["ctrlc"] = "none" /\ pc["display"] = "none"
    /\ result = "ServerFailed"
          => /\ exit_code = <<1>> /\ pc["main"] = "done"
             /\ \E i \in 1 .. Len(summaries) : summaries[i].by = "main"
    /\ result = "none" => (exit_code = <<>> \/ exit_code = <<0>>)

\* The child could not be spawned: main() has returned the failure and no
\* summary was printed.
C11_Witness ==
    /\ result = "SpawnChild" /\ exit_code = <<1>> /\ summaries = <<>>

\* C12, as claimed: once the Ctrl+C closure has started, the process ends only
\* by the closure's exit(0), after the closure has printed its summary; it
\* never ends with the failure of server.run.
C12_InterruptExitsZero ==
    (pc["ctrlc"] \notin {"none", "wait"} /\ exit_code # <<>>)
        => /\ exit_code = <<0>>
           /\ result = "none"
           /\ \E i \in 1 .. Len(summaries) : summaries[i].by = "ctrlc"

\* C13, as claimed: once a summary has been printed the display thread writes
\* no further live status line.
C13_NoStatusAfterSummary ==
    [][summaries # <<>> => status_lines' = status_lines]_vars

\* C14: the actions per minute of a printed summary are the total that summary
\* reports, divided by the elapsed seconds, times 60, to the printed tenth:
\* 60.0 for a total of 60 in 60 s, and 0.0 when no time has elapsed.
C14_ApmIsTotalPerMinute ==
    \A i \in 1 .. Len(summaries) :
        LET s == summaries[i]
            exact == s.total * 600000      \* tenths per minute, times duration in ms
        IN /\ s.duration = 0 => s.apm = 0
           /\ s.duration > 0 =>
                 /\ 2 * (s.apm * s.duration - exact) <= s.duration
                 /\ 2 * (exact - s.apm * s.duration) <= s.duration
           /\ (s.total = 60 /\ s.duration = 60000) => s.apm = 600

\* A summary of 60 actions, scroll steps among them, after 60 s.
C14_Witness ==
    /\ Len(summaries) = 1
    /\ summaries[1].total = 60 /\ summaries[1].scrolls = 20
    /\ summaries[1].duration = 60000 /\ summaries[1].apm = 600

\* C15: in every state an id is in pressed_keys (pressed_buttons) exactly when
\* the last PRESSED/RELEASED event delivered for it, through whichever handler
\* object of its class, was a PRESSED.
C15_PressedIsLastState ==
    /\ pressed_keys = {k \in Keys : key_down[k]}
    /\ pressed_buttons = {b \in Buttons : button_down[b]}

\* Two keyboard handlers: one key was pressed and released again, another is
\* still held, and a button is held too.
C15_Witness ==
    /\ keyboards = 2
    /\ \E k, j \in Keys :
          /\ k # j
          /\ pressed_keys = {k} /\ key_down[k]
          /\ key_runs[j] = 1 /\ ~key_down[j]
    /\ \E b \in Buttons : pressed_buttons = {b}

\* C16, as claimed: no handler has a mutex locked, on a pressed set or on the
\* debounce clock, when it sends its event on.
C16_NoLockAcrossSend == held_at_send = {}

\* C17, as claimed: the three scroll handlers count independently, so
\* scroll_steps has grown by the sum of what the events of each kind would
\* have added had they been delivered alone.
C17_AsClaimed ==
    scroll_steps = alone["axis"].steps + alone["axis_discrete"].steps
                   + alone["axis_value120"].steps

\* C17: the three scroll handlers share one debounce instant, so what an event
\* adds depends on the counted events of all three kinds: the events of each
\* kind are counted for at most what they would add alone, and scroll_steps
\* has grown by at most the sum of the three.
C17_ScrollPathsShareDebounce ==
    /\ \A k \in ScrollKinds : alone[k].counted <= alone[k].steps
    /\ scroll_steps = alone["axis"].counted + alone["axis_discrete"].counted
                      + alone["axis_value120"].counted
    /\ scroll_steps <= alone["axis"].steps + alone["axis_discrete"].steps
                       + alone["axis_value120"].steps

\* An event of one kind was counted, and an event of another kind that came
\* within 100 ms of it was not, though alone it would have been.
C17_Witness ==
    /\ scroll_steps = 1
    /\ \E k, j \in ScrollKinds :
          /\ k # j
          /\ alone[k].counted = 1 /\ alone[k].steps = 1
          /\ alone[j].counted = 0 /\ alone[j].steps = 1
          /\ last_in.kind = j

\* C18: the running flag is true at first, and once it is false it is never
\* true again: every write after start-up writes false.
C18_RunningOnlyCleared ==
    /\ running = TRUE
    /\ [][running' # running => (running = TRUE /\ running' = FALSE)]_vars

\* Both main() and the Ctrl+C closure have stored false.
C18_Witness ==
    /\ running = FALSE
    /\ pc["main"] \in {"load_keys", "print", "leave"}
    /\ pc["ctrlc"] \in {"load_keys", "load_clicks", "load_scrolls", "load_touch",
                       "print", "leave"}

\* The clock of the model has taken its last step while the display thread
\* sleeps: the thread's wake-up lies beyond the instants modelled.
ClockStopped == ticks = MaxLifeTicks /\ now < wake_at

\* C19: in quiet mode no display thread is started and no live status line is
\* written.  Otherwise each wake-up of the display thread that finds running
\* true loads the counters and writes a status line, and one that finds it
\* false leaves the loop; at most one status line is written once running is
\* false, and, the thread being scheduled, it then leaves its loop unless the
\* process ends first.
C19_RefresherFollowsRunning ==
    /\ [](quiet => (pc["display"] = "none" /\ status_lines = 0))
    /\ [](renders_after_clear <= 1)
    /\ [][pc'["display"] # pc["display"] =>
            \/ pc["display"] = "none" /\ pc'["display"] = "check" /\ ~quiet
            \/ pc["display"] = "check" /\ running /\ pc'["display"] = "load"
            \/ pc["display"] = "check" /\ ~running /\ pc'["display"] = "done"
            \/ pc["display"] = "load" /\ pc'["display"] = "render"
            \/ /\ pc["display"] = "render" /\ pc'["display"] = "check"
               /\ status_lines' = status_lines + 1]_vars
    /\ (~running) ~> (pc["display"] \in {"none", "done"} \/ exit_code # <<>> \/ ClockStopped)

\* The display thread found running true, wrote its status line after the flag
\* was cleared, and has left its loop with the process still alive.
C19_Witness ==
    /\ ~quiet /\ ~running /\ exit_code = <<>>
    /\ renders_after_clear = 1
    /\ pc["display"] = "done"

\* C20: a key event whose state is neither PRESSED nor RELEASED, and a button
\* event whose state is neither, leaves the pressed sets and the four counters
\* as they were and is sent on as it came.
C20_OtherStatesOnlyForwarded ==
    [][((Arrived("key") \/ Arrived("button"))
          /\ last_in'.state \notin {"PRESSED", "RELEASED"})
        => /\ UNCHANGED <<counterVars, pressVars>>
           /\ forwarded' = forwarded + 1
           /\ last_out' = last_in']_vars

\* A key is held, a button is not, and the last two events were a repeat of
\* that key and a button event of another state: neither was counted.
C20_Witness ==
    /\ received = 3 /\ forwarded = 3
    /\ kinds_seen = {"key", "button"}
    /\ last_in.state \notin {"PRESSED", "RELEASED"}
    /\ \E k \in Keys : pressed_keys = {k}
    /\ pressed_buttons = {}
    /\ key_presses = 1 /\ button_clicks = 0
    /\ pressed_delivered = 1

\* C21: the pointer handlers share one debounce instant for the three kinds of
\* scroll event, set at start-up: it is the instant of the last counted scroll
\* event of any kind through any handler, a counted event adds exactly 1 and
\* comes at least 100 ms after the one counted before it, and no event is
\* counted in the first 100 ms after start-up.
C21_CountedScrollsAreApart ==
    /\ [](last_scroll_time = last_accept)
    /\ [](now - start_time < DebounceMs => scroll_steps = 0)
    /\ [][scroll_steps' # scroll_steps =>
            /\ last_in'.kind \in ScrollKinds /\ received' = received + 1
            /\ scroll_steps' = scroll_steps + 1
            /\ now - last_accept >= DebounceMs
            /\ last_accept' = now]_vars

\* Two pointer handlers: events of two kinds were counted 100 ms or more apart,
\* the second through the second handler, and a third event was not counted.
C21_Witness ==
    /\ POINTER_COUNTER = 2 /\ received = 3 /\ scroll_steps = 2
    /\ \E k, j \in ScrollKinds :
          /\ k # j /\ alone[k].counted = 1 /\ alone[j].counted = 1
          /\ last_in.kind = j
    /\ last_in.obj = 1 /\ last_accept = now /\ now >= 2 * DebounceMs

\* C22: touch_taps is the number of touch-down events delivered so far, through
\* whichever touch handler, none left out; and an event changes no counter but
\* that of its own class: a key event key_presses, a button event
\* button_clicks, a scroll event scroll_steps, a touch-down touch_taps.
C22_EachHandlerOwnCounter ==
    /\ [](touch_taps = delivered["down"])
    /\ [][/\ Arrived("key") => UNCHANGED <<button_clicks, scroll_steps, touch_taps>>
          /\ Arrived("button") => UNCHANGED <<key_presses, scroll_steps, touch_taps>>
          /\ (received' = received + 1 /\ last_in'.kind \in ScrollKinds)
                => UNCHANGED <<key_presses, button_clicks, touch_taps>>
          /\ Arrived("down")
                => /\ UNCHANGED <<key_presses, button_clicks, scroll_steps>>
                   /\ touch_taps' = touch_taps + 1]_vars

\* Two touch handlers: two touch-downs of the same id at the same instant, the
\* second through the second handler, were both counted.
C22_Witness ==
    /\ touches = 2 /\ delivered["down"] = 2 /\ received = 2
    /\ last_in.kind = "down" /\ last_in.obj = 1 /\ now = 0
    /\ touch_taps = 2 /\ key_presses = 0 /\ button_clicks = 0 /\ scroll_steps = 0

====
